---- MODULE Spec2Model ----
(***************************************************************************)
(* Planora reservation lifecycle engine: ReservationsService and the       *)
(* EventsService (event registry and counter operations) it consumes.      *)
(*                                                                         *)
(* Every handler is an async function over a MongoDB repository.  Node     *)
(* runs the code between two awaits of a repository call without           *)
(* interruption, so each repository call (a findOne or a save) together    *)
(* with the synchronous code that follows it is one atomic step of the     *)
(* request that makes it; steps of different requests interleave freely.   *)
(* A save of a loaded entity writes the whole in-memory document back.     *)
(***************************************************************************)
EXTENDS Integers, Sequences, FiniteSets, TLC

\* ------------------------------------------------------------------ bounds
NumProcs == 2
MaxCap == 2
MaxTickets == 2
MaxRes == 1

\* ------------------------------------------------------- program constants
CancelWindowHours == 24
CheckInLeadHours == 2
MaxTicketsPerReservation == 10

Procs == 1..NumProcs
\* Two participants, so that a reservation has an owner and a stranger, and
\* the organizer, who acts as admin.
Users == {"u1", "u2"}
Organizer == "org"
EventIds == {1}
Tickets == {n \in 1..MaxTickets : n <= MaxTicketsPerReservation}

\* The event of the model starts this many hours after time 0 and lasts two.
EventStart == CancelWindowHours + 2
EventEnd == EventStart + 2

\* now: the wall clock, in hours.  events, reservations: the two collections.
\* pc, loc: each in-flight request's position and local variables.
\* noShows: history, the reservations markNoShow has marked so far.
VARIABLES now, events, reservations, pc, loc, noShows

vars == <<now, events, reservations, pc, loc, noShows>>

\* ------------------------------------------------------------- documents
NoEvent ==
    [exists |-> FALSE, title |-> "", location |-> "", startDate |-> 0,
     endDate |-> 0, capacity |-> 0, registeredCount |-> 0, status |-> "none",
     price |-> 0, organizerId |-> ""]

NoReservation ==
    [eventId |-> 0, eventTitle |-> "", eventDate |-> 0, eventLocation |-> "",
     userId |-> "", numberOfTickets |-> 0, totalPrice |-> 0, status |-> "none",
     cancelReason |-> {}, canceledAt |-> {}, confirmedAt |-> {},
     checkedInAt |-> {}, qrCode |-> 0]

\* An UpdateEventDto: every field is optional, {} when absent.
NoDto ==
    [title |-> {}, location |-> {}, startDate |-> {}, endDate |-> {},
     capacity |-> {}, price |-> {}, status |-> {}, registeredCount |-> {}]

Blank ==
    [op |-> "none", eventId |-> 0, n |-> 0, user |-> "", isAdmin |-> FALSE,
     reason |-> {}, dto |-> NoDto, rid |-> 0, res |-> NoReservation,
     ev |-> NoEvent,
     qrCode |-> 0, valid |-> FALSE,
     t |-> 0, i |-> 0, alone |-> FALSE, cnt0 |-> 0, result |-> "none"]

PublishedEvent(cap) ==
    [exists |-> TRUE, title |-> "t1", location |-> "l1",
     startDate |-> EventStart, endDate |-> EventEnd, capacity |-> cap,
     registeredCount |-> 0, status |-> "published", price |-> 1,
     organizerId |-> Organizer]

\* ----------------------------------------------------- request bookkeeping
Loc(p) == loc[p]

InFlight(q) == pc[q] \notin {"idle", "done"}

\* History kept with each request: cnt0 is the event's registeredCount at the
\* moment the request's Confirm or Cancel was invoked, and alone says that no
\* other request has been in flight at any moment since then, the time after
\* the request has finished included.
\* The history is kept only while the request is alone.
Observed(l, a) == [l EXCEPT !.alone = a, !.cnt0 = IF a THEN @ ELSE 0]

Overlapped(l) == Observed(l, FALSE)

NoOtherInFlight(p) == \A o \in Procs \ {p} : ~InFlight(o)

\* Request p arrives and runs up to its first await.
Start(p, label, l) ==
    /\ pc[p] = "idle"
    /\ pc' = [pc EXCEPT ![p] = label]
    /\ loc' = [q \in Procs |->
                 IF q = p THEN Observed(l, NoOtherInFlight(p))
                 ELSE IF pc[q] # "idle" THEN Overlapped(loc[q])
                 ELSE loc[q]]

Goto(p, label, l) ==
    /\ pc' = [pc EXCEPT ![p] = label]
    /\ loc' = [loc EXCEPT ![p] = l]

\* What a finished request leaves to look at: its arguments, the reservation
\* as it had loaded it, and its outcome.
Finished(l, outcome) ==
    [l EXCEPT !.result = outcome, !.ev = NoEvent, !.reason = {}]

Failed(l, exception) == Finished(l, exception)

\* A thrown exception ends the request; nothing is rolled back.
Throw(p, exception) ==
    /\ Goto(p, "done", Failed(Loc(p), exception))
    /\ UNCHANGED <<now, events, reservations, noShows>>

\* The same for an exception thrown before the request's first await.
Reject(p, l, exception) ==
    /\ Start(p, "done", Failed(l, exception))
    /\ UNCHANGED <<now, events, reservations, noShows>>

\* The response is sent; the worker is free for the next request.
Return(p) ==
    /\ pc[p] = "done"
    /\ Goto(p, "idle", Blank)
    /\ UNCHANGED <<now, events, reservations, noShows>>

\* ------------------------------------------------ EventsService (counter)
IncrementCheckNoCapacity(ev) ==
    IF ev.status # "published" THEN "BadRequestException" ELSE "ok"

IncrementCheckAnyStatus(ev) ==
    IF ev.registeredCount >= ev.capacity THEN "BadRequestException" ELSE "ok"

IncrementCheck(ev) ==
    IF ev.status # "published" THEN "BadRequestException"
    ELSE IF ev.registeredCount >= ev.capacity THEN "BadRequestException"
    ELSE "ok"

Incremented(ev) == [ev EXCEPT !.registeredCount = @ + 1]

DecrementAppliesAlways(ev) == TRUE

DecrementApplies(ev) == ev.registeredCount > 0

Decremented(ev) == [ev EXCEPT !.registeredCount = @ - 1]

\* incrementRegisteredCount called on its own: findById and the two guards,
\* then the save of the loaded event with its counter raised.
IncrementFind(p, e) ==
    LET ev == events[e]
        l == [Blank EXCEPT !.op = "increment", !.eventId = e,
                           !.cnt0 = ev.registeredCount]
    IN
    IF ~ev.exists THEN Reject(p, l, "NotFoundException")
    ELSE IF IncrementCheck(ev) # "ok" THEN Reject(p, l, IncrementCheck(ev))
    ELSE /\ Start(p, "inc_save", [l EXCEPT !.ev = ev])
         /\ UNCHANGED <<now, events, reservations, noShows>>

IncrementSave(p) ==
    /\ pc[p] = "inc_save"
    /\ events' = [events EXCEPT ![Loc(p).eventId] = Incremented(Loc(p).ev)]
    /\ Goto(p, "done", Finished(Loc(p), "ok"))
    /\ UNCHANGED <<now, reservations, noShows>>

\* decrementRegisteredCount called on its own: at zero it returns the event
\* as loaded, without a save.
DecrementFind(p, e) ==
    LET ev == events[e]
        l == [Blank EXCEPT !.op = "decrement", !.eventId = e,
                           !.cnt0 = ev.registeredCount]
    IN
    IF ~ev.exists THEN Reject(p, l, "NotFoundException")
    ELSE IF DecrementApplies(ev)
    THEN /\ Start(p, "dec_save", [l EXCEPT !.ev = ev])
         /\ UNCHANGED <<now, events, reservations, noShows>>
    ELSE /\ Start(p, "done", Finished(l, "ok"))
         /\ UNCHANGED <<now, events, reservations, noShows>>

DecrementSave(p) ==
    /\ pc[p] = "dec_save"
    /\ events' = [events EXCEPT ![Loc(p).eventId] = Decremented(Loc(p).ev)]
    /\ Goto(p, "done", Finished(Loc(p), "ok"))
    /\ UNCHANGED <<now, reservations, noShows>>

\* ---------------------------------------- ReservationsService (helpers)
ValidateEventForReservationLate(ev, t) ==
    IF ev.status # "published" THEN "BadRequestException"
    ELSE IF ev.startDate < t THEN "BadRequestException"
    ELSE "ok"

ValidateEventForReservation(ev, t) ==
    IF ev.status # "published" THEN "BadRequestException"
    ELSE IF ev.startDate <= t THEN "BadRequestException"
    ELSE "ok"

CheckOverbookingNone(ev, n) == "ok"

CheckOverbooking(ev, n) ==
    IF ev.capacity - ev.registeredCount < n THEN "ConflictException" ELSE "ok"

ActiveStatuses == {"pending", "confirmed"}

CheckExistingReservation(e, u) ==
    IF \E r \in DOMAIN reservations :
          /\ reservations[r].eventId = e
          /\ reservations[r].userId = u
          /\ reservations[r].status \in ActiveStatuses
    THEN "ConflictException" ELSE "ok"

NewReservation(ev, e, n, u) ==
    [NoReservation EXCEPT
        !.eventId = e, !.eventTitle = ev.title, !.eventDate = ev.startDate,
        !.eventLocation = ev.location, !.userId = u, !.numberOfTickets = n,
        !.totalPrice = ev.price * n, !.status = "pending"]

\* reservationRepository.save of a loaded reservation: the columns defined on
\* the copy are written over the stored document; cancelReason, canceledAt,
\* confirmedAt and checkedInAt are optional columns, and one that is absent on
\* the copy is not written, so the stored value stays.
Saved(stored, copy) ==
    [copy EXCEPT
        !.cancelReason = IF @ = {} THEN stored.cancelReason ELSE @,
        !.canceledAt   = IF @ = {} THEN stored.canceledAt ELSE @,
        !.confirmedAt  = IF @ = {} THEN stored.confirmedAt ELSE @,
        !.checkedInAt  = IF @ = {} THEN stored.checkedInAt ELSE @]

\* ------------------------------------------------------------------ create
InFlightCreates ==
    Cardinality({q \in Procs : pc[q] \in {"c_checkExisting", "c_save"}})

\* The store has room for fewer than k reservations so far, counting those
\* the Create requests in flight are about to save.
Room(k) == Len(reservations) + InFlightCreates < k

CreateFindEventCapacityFirst(p, e, n, u) ==
    LET ev == events[e]
        l == [Blank EXCEPT !.op = "create", !.eventId = e, !.n = n, !.user = u,
                           !.t = now, !.cnt0 = ev.registeredCount]
    IN
    IF ~ev.exists THEN Reject(p, l, "NotFoundException")
    ELSE IF CheckOverbooking(ev, n) # "ok"
    THEN Reject(p, l, CheckOverbooking(ev, n))
    ELSE IF ValidateEventForReservation(ev, now) # "ok"
    THEN Reject(p, l, ValidateEventForReservation(ev, now))
    ELSE /\ Start(p, "c_checkExisting", [l EXCEPT !.ev = ev])
         /\ UNCHANGED <<now, events, reservations, noShows>>

CreateFindEvent(p, e, n, u) ==
    LET ev == events[e]
        l == [Blank EXCEPT !.op = "create", !.eventId = e, !.n = n, !.user = u,
                           !.t = now, !.cnt0 = ev.registeredCount]
    IN
    IF ~ev.exists THEN Reject(p, l, "NotFoundException")
    ELSE IF ValidateEventForReservation(ev, now) # "ok"
    THEN Reject(p, l, ValidateEventForReservation(ev, now))
    ELSE IF CheckOverbooking(ev, n) # "ok"
    THEN Reject(p, l, CheckOverbooking(ev, n))
    ELSE /\ Start(p, "c_checkExisting", [l EXCEPT !.ev = ev])
         /\ UNCHANGED <<now, events, reservations, noShows>>

CreateCheckExisting(p) ==
    /\ pc[p] = "c_checkExisting"
    /\ IF CheckExistingReservation(Loc(p).eventId, Loc(p).user) # "ok"
       THEN Throw(p, CheckExistingReservation(Loc(p).eventId, Loc(p).user))
       ELSE /\ Goto(p, "c_save", Loc(p))
            /\ UNCHANGED <<now, events, reservations, noShows>>

\* generateQrCode: a code no stored reservation carries yet.
GenerateQrCode == Len(reservations) + 1

CreateSave(p) ==
    /\ pc[p] = "c_save"
    /\ reservations' =
          Append(reservations,
                 [NewReservation(Loc(p).ev, Loc(p).eventId, Loc(p).n, Loc(p).user)
                     EXCEPT !.qrCode = GenerateQrCode])
    /\ Goto(p, "k_findRes",
            [Loc(p) EXCEPT !.rid = Len(reservations) + 1, !.ev = NoEvent])
    /\ UNCHANGED <<now, events, noShows>>

\* ----------------------------------------------------------------- confirm
ConfirmCheckNone(res) == "ok"

ConfirmCheck(res) ==
    IF res.status # "pending" THEN "BadRequestException" ELSE "ok"

ConfirmedUnstamped(res, t) == [res EXCEPT !.status = "confirmed"]

Confirmed(res, t) == [res EXCEPT !.status = "confirmed", !.confirmedAt = {t}]

\* The request holds the reservation its findById has returned; the history
\* notes the counter of the reservation's event at that moment.
Loaded(l, rid) ==
    [l EXCEPT !.res = reservations[rid],
              !.cnt0 = events[reservations[rid].eventId].registeredCount]

\* confirm's body from its findById on, for a request already holding l.
ConfirmLoaded(p, l) ==
    Observed([l EXCEPT !.res = reservations[l.rid], !.i = 0,
                       !.cnt0 = events[reservations[l.rid].eventId].registeredCount],
             NoOtherInFlight(p))

\* Create's call of confirm on the reservation it has just saved.
ConfirmFindRes(p) ==
    /\ pc[p] = "k_findRes"
    /\ IF Loc(p).rid \notin DOMAIN reservations
       THEN Throw(p, "NotFoundException")
       ELSE IF ConfirmCheck(reservations[Loc(p).rid]) # "ok"
       THEN Throw(p, ConfirmCheck(reservations[Loc(p).rid]))
       ELSE /\ Goto(p, "k_incFind", ConfirmLoaded(p, Loc(p)))
            /\ UNCHANGED <<now, events, reservations, noShows>>

\* The admin's confirm request.
ConfirmCall(p, rid) ==
    LET l == [Blank EXCEPT !.op = "confirm", !.rid = rid] IN
    IF rid \notin DOMAIN reservations THEN Reject(p, l, "NotFoundException")
    ELSE IF ConfirmCheck(reservations[rid]) # "ok"
    THEN Reject(p, Loaded(l, rid), ConfirmCheck(reservations[rid]))
    ELSE /\ Start(p, "k_incFind", ConfirmLoaded(p, l))
         /\ UNCHANGED <<now, events, reservations, noShows>>

ConfirmIncFind(p) ==
    /\ pc[p] = "k_incFind"
    /\ LET ev == events[Loc(p).res.eventId] IN
       IF ~ev.exists THEN Throw(p, "NotFoundException")
       ELSE IF IncrementCheck(ev) # "ok" THEN Throw(p, IncrementCheck(ev))
       ELSE /\ Goto(p, "k_incSave", [Loc(p) EXCEPT !.ev = ev])
            /\ UNCHANGED <<now, events, reservations, noShows>>

ConfirmIncSave(p) ==
    /\ pc[p] = "k_incSave"
    /\ events' = [events EXCEPT ![Loc(p).res.eventId] = Incremented(Loc(p).ev)]
    /\ Goto(p, IF Loc(p).i + 1 < Loc(p).res.numberOfTickets
               THEN "k_incFind" ELSE "k_save",
            [Loc(p) EXCEPT !.i = @ + 1, !.ev = NoEvent])
    /\ UNCHANGED <<now, reservations, noShows>>

ConfirmSave(p) ==
    /\ pc[p] = "k_save"
    /\ reservations' =
          [reservations EXCEPT ![Loc(p).rid] = Saved(@, Confirmed(Loc(p).res, now))]
    /\ Goto(p, "done", Finished(Loc(p), "ok"))
    /\ UNCHANGED <<now, events, noShows>>

\* ------------------------------------------------------------------ cancel
Reasons == {{}, {"changed plans"}}

CancelPermissionNone(res, u, isAdmin) == "ok"

CancelPermission(res, u, isAdmin) ==
    IF ~isAdmin /\ res.userId # u THEN "ForbiddenException" ELSE "ok"

CancelStatusCheckLax(res) ==
    IF res.status \in {"canceled", "refunded"} THEN "BadRequestException"
    ELSE "ok"

CancelStatusCheck(res) ==
    IF res.status \in {"canceled", "refunded"} THEN "BadRequestException"
    ELSE IF res.status = "checked_in" THEN "BadRequestException"
    ELSE "ok"

CancelWindowCheckInclusive(ev, t, isAdmin) ==
    IF ev.startDate - t <= CancelWindowHours /\ ~isAdmin
    THEN "BadRequestException" ELSE "ok"

CancelWindowCheck(ev, t, isAdmin) ==
    IF ev.startDate - t < CancelWindowHours /\ ~isAdmin
    THEN "BadRequestException" ELSE "ok"

CancelReleasesAlways(res) == TRUE

CancelReleases(res) == res.status = "confirmed"

Canceled(res, reason, t) ==
    [res EXCEPT !.status = "canceled",
                !.cancelReason = IF reason = {} THEN {"Annulation par l'utilisateur"}
                                 ELSE reason,
                !.canceledAt = {t}]

CancelFindRes(p, rid, u, isAdmin, reason) ==
    LET l == [Blank EXCEPT !.op = "cancel", !.rid = rid, !.user = u,
                           !.isAdmin = isAdmin, !.reason = reason]
    IN
    IF rid \notin DOMAIN reservations THEN Reject(p, l, "NotFoundException")
    ELSE LET res == reservations[rid] IN
         IF CancelPermission(res, u, isAdmin) # "ok"
         THEN Reject(p, Loaded(l, rid), CancelPermission(res, u, isAdmin))
         ELSE IF CancelStatusCheck(res) # "ok"
         THEN Reject(p, Loaded(l, rid), CancelStatusCheck(res))
         ELSE /\ Start(p, "x_findEvent", Loaded(l, rid))
              /\ UNCHANGED <<now, events, reservations, noShows>>

CancelFindEvent(p) ==
    /\ pc[p] = "x_findEvent"
    /\ LET ev == events[Loc(p).res.eventId] IN
       IF ~ev.exists THEN Throw(p, "NotFoundException")
       ELSE IF CancelWindowCheck(ev, now, Loc(p).isAdmin) # "ok"
       THEN /\ Goto(p, "done",
                    Failed([Loc(p) EXCEPT !.t = now],
                           CancelWindowCheck(ev, now, Loc(p).isAdmin)))
            /\ UNCHANGED <<now, events, reservations, noShows>>
       ELSE /\ Goto(p, IF CancelReleases(Loc(p).res) THEN "x_decFind" ELSE "x_save",
                    [Loc(p) EXCEPT !.i = 0, !.t = now])
            /\ UNCHANGED <<now, events, reservations, noShows>>

CancelLoopForever(p) == "x_decFind"

CancelLoopNext(p) ==
    IF Loc(p).i + 1 < Loc(p).res.numberOfTickets THEN "x_decFind" ELSE "x_save"

CancelDecFind(p) ==
    /\ pc[p] = "x_decFind"
    /\ LET ev == events[Loc(p).res.eventId] IN
       IF ~ev.exists THEN Throw(p, "NotFoundException")
       ELSE IF DecrementApplies(ev)
       THEN /\ Goto(p, "x_decSave", [Loc(p) EXCEPT !.ev = ev])
            /\ UNCHANGED <<now, events, reservations, noShows>>
       ELSE /\ Goto(p, CancelLoopNext(p), [Loc(p) EXCEPT !.i = @ + 1])
            /\ UNCHANGED <<now, events, reservations, noShows>>

CancelDecSaveEverywhere(p) ==
    /\ pc[p] = "x_decSave"
    /\ events' = [e \in DOMAIN events |-> Decremented(events[e])]
    /\ Goto(p, CancelLoopNext(p), [Loc(p) EXCEPT !.i = @ + 1, !.ev = NoEvent])
    /\ UNCHANGED <<now, reservations, noShows>>

CancelDecSave(p) ==
    /\ pc[p] = "x_decSave"
    /\ events' = [events EXCEPT ![Loc(p).res.eventId] = Decremented(Loc(p).ev)]
    /\ Goto(p, CancelLoopNext(p), [Loc(p) EXCEPT !.i = @ + 1, !.ev = NoEvent])
    /\ UNCHANGED <<now, reservations, noShows>>

CancelSave(p) ==
    /\ pc[p] = "x_save"
    /\ reservations' =
          [reservations EXCEPT
             ![Loc(p).rid] = Saved(@, Canceled(Loc(p).res, Loc(p).reason, now))]
    /\ Goto(p, "done", Finished(Loc(p), "ok"))
    /\ UNCHANGED <<now, events, noShows>>

\* ----------------------------------------------------------------- checkIn
CheckInStatusCheckLax(res) ==
    IF res.status \notin {"confirmed", "checked_in"} THEN "BadRequestException"
    ELSE "ok"

CheckInStatusCheck(res) ==
    IF res.status # "confirmed" THEN "BadRequestException" ELSE "ok"

CheckInWindowCheckExclusive(ev, t) ==
    IF t < ev.startDate - CheckInLeadHours THEN "BadRequestException"
    ELSE IF t >= ev.endDate THEN "BadRequestException"
    ELSE "ok"

CheckInWindowCheck(ev, t) ==
    IF t < ev.startDate - CheckInLeadHours THEN "BadRequestException"
    ELSE IF t > ev.endDate THEN "BadRequestException"
    ELSE "ok"

CheckedIn(res, t) == [res EXCEPT !.status = "checked_in", !.checkedInAt = {t}]

CheckInFindRes(p, rid) ==
    LET l == [Blank EXCEPT !.op = "checkIn", !.rid = rid] IN
    IF rid \notin DOMAIN reservations THEN Reject(p, l, "NotFoundException")
    ELSE IF CheckInStatusCheck(reservations[rid]) # "ok"
    THEN Reject(p, Loaded(l, rid), CheckInStatusCheck(reservations[rid]))
    ELSE /\ Start(p, "i_findEvent", Loaded(l, rid))
         /\ UNCHANGED <<now, events, reservations, noShows>>

CheckInFindEvent(p) ==
    /\ pc[p] = "i_findEvent"
    /\ LET ev == events[Loc(p).res.eventId] IN
       IF ~ev.exists THEN Throw(p, "NotFoundException")
       ELSE IF CheckInWindowCheck(ev, now) # "ok"
       THEN /\ Goto(p, "done",
                    Failed([Loc(p) EXCEPT !.t = now], CheckInWindowCheck(ev, now)))
            /\ UNCHANGED <<now, events, reservations, noShows>>
       ELSE /\ Goto(p, "i_save", [Loc(p) EXCEPT !.t = now])
            /\ UNCHANGED <<now, events, reservations, noShows>>

CheckInSave(p) ==
    /\ pc[p] = "i_save"
    /\ reservations' =
          [reservations EXCEPT ![Loc(p).rid] = Saved(@, CheckedIn(Loc(p).res, now))]
    /\ Goto(p, "done", Finished(Loc(p), "ok"))
    /\ UNCHANGED <<now, events, noShows>>

\* -------------------------------------------------------------- markNoShow
NoShowCheckNone(res) == "ok"

NoShowCheck(res) ==
    IF res.status # "confirmed" THEN "BadRequestException" ELSE "ok"

NoShowMarked(res) == [res EXCEPT !.status = "no_show"]

MarkNoShowFindRes(p, rid) ==
    LET l == [Blank EXCEPT !.op = "markNoShow", !.rid = rid] IN
    IF rid \notin DOMAIN reservations THEN Reject(p, l, "NotFoundException")
    ELSE IF NoShowCheck(reservations[rid]) # "ok"
    THEN Reject(p, Loaded(l, rid), NoShowCheck(reservations[rid]))
    ELSE /\ Start(p, "n_save", Loaded(l, rid))
         /\ UNCHANGED <<now, events, reservations, noShows>>

MarkNoShowSave(p) ==
    /\ pc[p] = "n_save"
    /\ reservations' =
          [reservations EXCEPT ![Loc(p).rid] = Saved(@, NoShowMarked(Loc(p).res))]
    /\ noShows' = noShows \cup {Loc(p).rid}
    /\ Goto(p, "done", Finished(Loc(p), "ok"))
    /\ UNCHANGED <<now, events>>

\* ------------------------------------------------------------------ refund
RefundCheckLax(res) ==
    IF res.status \notin {"canceled", "no_show", "confirmed"}
    THEN "BadRequestException" ELSE "ok"

RefundCheck(res) ==
    IF res.status # "canceled" /\ res.status # "no_show"
    THEN "BadRequestException" ELSE "ok"

RefundedZeroPrice(res) == [res EXCEPT !.status = "refunded", !.totalPrice = 0]

Refunded(res) == [res EXCEPT !.status = "refunded"]

RefundFindRes(p, rid) ==
    LET l == [Blank EXCEPT !.op = "refund", !.rid = rid] IN
    IF rid \notin DOMAIN reservations THEN Reject(p, l, "NotFoundException")
    ELSE IF RefundCheck(reservations[rid]) # "ok"
    THEN Reject(p, Loaded(l, rid), RefundCheck(reservations[rid]))
    ELSE /\ Start(p, "r_save", Loaded(l, rid))
         /\ UNCHANGED <<now, events, reservations, noShows>>

RefundSave(p) ==
    /\ pc[p] = "r_save"
    /\ reservations' =
          [reservations EXCEPT ![Loc(p).rid] = Saved(@, Refunded(Loc(p).res))]
    /\ Goto(p, "done", Finished(Loc(p), "ok"))
    /\ UNCHANGED <<now, events, noShows>>

\* ------------------------------------------------------- generateTicketPdf
TicketPermission(res, u, isAdmin) ==
    IF ~isAdmin /\ res.userId # u THEN "ForbiddenException" ELSE "ok"

TicketStatusCheckLax(res) ==
    IF res.status \notin {"confirmed", "checked_in", "no_show"}
    THEN "BadRequestException" ELSE "ok"

TicketStatusCheck(res) ==
    IF res.status # "confirmed" /\ res.status # "checked_in"
    THEN "BadRequestException" ELSE "ok"

\* The ticket is rendered from the loaded reservation; nothing is stored.
GenerateTicketPdf(p, rid, u, isAdmin) ==
    LET l == [Blank EXCEPT !.op = "ticket", !.rid = rid, !.user = u,
                           !.isAdmin = isAdmin]
    IN
    IF rid \notin DOMAIN reservations THEN Reject(p, l, "NotFoundException")
    ELSE LET res == reservations[rid] IN
         IF TicketPermission(res, u, isAdmin) # "ok"
         THEN Reject(p, Loaded(l, rid), TicketPermission(res, u, isAdmin))
         ELSE IF TicketStatusCheck(res) # "ok"
         THEN Reject(p, Loaded(l, rid), TicketStatusCheck(res))
         ELSE /\ Start(p, "done", Finished(Loaded(l, rid), "ok"))
              /\ UNCHANGED <<now, events, reservations, noShows>>

\* ---------------------------------------------------------- verifyByQrCode
\* findOne({ qrCode }): a stored reservation carrying the code, 0 if none.
FindByQrCode(code) ==
    IF \E r \in DOMAIN reservations : reservations[r].qrCode = code
    THEN CHOOSE r \in DOMAIN reservations : reservations[r].qrCode = code
    ELSE 0

VerifyResultAcceptsUsed(rid) ==
    IF rid = 0
    THEN [valid |-> FALSE, message |-> "Code de reservation invalide"]
    ELSE IF reservations[rid].status = "canceled"
    THEN [valid |-> FALSE, message |-> "Cette reservation a ete annulee"]
    ELSE IF reservations[rid].status \notin {"confirmed", "checked_in"}
    THEN [valid |-> FALSE, message |-> "Cette reservation n'est pas valide"]
    ELSE [valid |-> TRUE, message |-> "Reservation valide"]

\* What verifyByQrCode returns for the reservation found (0: none).
VerifyResult(rid) ==
    IF rid = 0
    THEN [valid |-> FALSE, message |-> "Code de reservation invalide"]
    ELSE IF reservations[rid].status = "canceled"
    THEN [valid |-> FALSE, message |-> "Cette reservation a ete annulee"]
    ELSE IF reservations[rid].status = "checked_in"
    THEN [valid |-> FALSE, message |-> "Cette reservation a deja ete utilisee"]
    ELSE IF reservations[rid].status # "confirmed"
    THEN [valid |-> FALSE, message |-> "Cette reservation n'est pas valide"]
    ELSE [valid |-> TRUE, message |-> "Reservation valide"]

VerifyByQrCode(p, code) ==
    LET rid == FindByQrCode(code)
        l == [Blank EXCEPT !.op = "verify", !.qrCode = code, !.rid = rid]
        found == IF rid = 0 THEN l ELSE Loaded(l, rid)
    IN
    /\ Start(p, "done",
             Finished([found EXCEPT !.valid = VerifyResult(rid).valid],
                      VerifyResult(rid).message))
    /\ UNCHANGED <<now, events, reservations, noShows>>

\* ------------------------------------------------- EventsService (update)
AllowedTransitions ==
    [draft |-> {"published", "canceled"}, published |-> {"canceled"},
     canceled |-> {}]

ValidateStatusTransitionNone(currentStatus, newStatus, ev, t) == "ok"

ValidateStatusTransition(currentStatus, newStatus, ev, t) ==
    IF newStatus \notin AllowedTransitions[currentStatus]
    THEN "BadRequestException"
    ELSE IF newStatus = "published" /\ ev.startDate <= t
    THEN "BadRequestException"
    ELSE "ok"

ValidateDates(startDate, endDate) ==
    IF endDate <= startDate THEN "BadRequestException" ELSE "ok"

ValidateCapacity(newCapacity, registeredCount) ==
    IF newCapacity < registeredCount THEN "BadRequestException" ELSE "ok"

\* The value of an optional field, or d when it is absent.
Pick(field, d) == IF field = {} THEN d ELSE CHOOSE x \in field : TRUE

UpdatePermission(ev, u, isAdmin) ==
    IF ~isAdmin /\ ev.organizerId # u THEN "ForbiddenException" ELSE "ok"

\* update's validations, in the order of the code.
UpdateCheck(ev, dto, t) ==
    IF /\ dto.status # {}
       /\ ValidateStatusTransition(ev.status, Pick(dto.status, ev.status), ev, t) # "ok"
    THEN ValidateStatusTransition(ev.status, Pick(dto.status, ev.status), ev, t)
    ELSE IF /\ (dto.startDate # {} \/ dto.endDate # {})
            /\ ValidateDates(Pick(dto.startDate, ev.startDate),
                             Pick(dto.endDate, ev.endDate)) # "ok"
    THEN "BadRequestException"
    ELSE IF /\ dto.capacity # {}
            /\ ValidateCapacity(Pick(dto.capacity, ev.capacity),
                                ev.registeredCount) # "ok"
    THEN "BadRequestException"
    ELSE "ok"

\* Object.assign(event, dto): every field the dto carries is overwritten.
Assigned(ev, dto) ==
    [ev EXCEPT !.title = Pick(dto.title, @),
               !.location = Pick(dto.location, @),
               !.startDate = Pick(dto.startDate, @),
               !.endDate = Pick(dto.endDate, @),
               !.capacity = Pick(dto.capacity, @),
               !.price = Pick(dto.price, @),
               !.status = Pick(dto.status, @),
               !.registeredCount = Pick(dto.registeredCount, @)]

UpdateFind(p, e, dto, u, isAdmin) ==
    LET ev == events[e]
        l == [Blank EXCEPT !.op = "update", !.eventId = e, !.dto = dto,
                           !.user = u, !.isAdmin = isAdmin, !.t = now]
    IN
    IF ~ev.exists THEN Reject(p, l, "NotFoundException")
    ELSE IF UpdatePermission(ev, u, isAdmin) # "ok"
    THEN Reject(p, l, UpdatePermission(ev, u, isAdmin))
    ELSE IF UpdateCheck(ev, dto, now) # "ok"
    THEN Reject(p, l, UpdateCheck(ev, dto, now))
    ELSE /\ Start(p, "u_save", [l EXCEPT !.ev = Assigned(ev, dto)])
         /\ UNCHANGED <<now, events, reservations, noShows>>

UpdateSave(p) ==
    /\ pc[p] = "u_save"
    /\ events' = [events EXCEPT ![Loc(p).eventId] = Loc(p).ev]
    /\ Goto(p, "done", Finished(Loc(p), "ok"))
    /\ UNCHANGED <<now, reservations, noShows>>

\* ----------------------------------- EventsService (create, publish, cancel)
EventCreatedAlwaysDraft(dto, organizerId) ==
    [exists |-> TRUE, title |-> Pick(dto.title, ""),
     location |-> Pick(dto.location, ""),
     startDate |-> Pick(dto.startDate, 0), endDate |-> Pick(dto.endDate, 0),
     capacity |-> Pick(dto.capacity, 0), registeredCount |-> 0,
     status |-> "draft", price |-> Pick(dto.price, 0),
     organizerId |-> organizerId]

\* The document create builds from a CreateEventDto: the status is the one
\* the dto carries, draft when it carries none; registeredCount is 0.
EventCreated(dto, organizerId) ==
    [exists |-> TRUE, title |-> Pick(dto.title, ""),
     location |-> Pick(dto.location, ""),
     startDate |-> Pick(dto.startDate, 0), endDate |-> Pick(dto.endDate, 0),
     capacity |-> Pick(dto.capacity, 0), registeredCount |-> 0,
     status |-> Pick(dto.status, "draft"), price |-> Pick(dto.price, 0),
     organizerId |-> organizerId]

\* create validates the dates and saves the new document under a fresh id e.
EventCreate(p, e, dto, u) ==
    LET l == [Blank EXCEPT !.op = "createEvent", !.eventId = e, !.dto = dto,
                           !.user = u]
    IN
    /\ ~events[e].exists
    /\ IF ValidateDates(Pick(dto.startDate, 0), Pick(dto.endDate, 0)) # "ok"
       THEN Reject(p, l, "BadRequestException")
       ELSE /\ Start(p, "done", Finished(l, "ok"))
            /\ events' = [events EXCEPT ![e] = EventCreated(dto, u)]
            /\ UNCHANGED <<now, reservations, noShows>>

PublishCheck(ev, t) ==
    IF ev.status # "draft" THEN "BadRequestException"
    ELSE IF ev.startDate <= t THEN "BadRequestException"
    ELSE "ok"

Published(ev) == [ev EXCEPT !.status = "published"]

PublishFind(p, e, u, isAdmin) ==
    LET ev == events[e]
        l == [Blank EXCEPT !.op = "publish", !.eventId = e, !.user = u,
                           !.isAdmin = isAdmin, !.t = now]
    IN
    IF ~ev.exists THEN Reject(p, l, "NotFoundException")
    ELSE IF UpdatePermission(ev, u, isAdmin) # "ok"
    THEN Reject(p, l, UpdatePermission(ev, u, isAdmin))
    ELSE IF PublishCheck(ev, now) # "ok" THEN Reject(p, l, PublishCheck(ev, now))
    ELSE /\ Start(p, "p_save", [l EXCEPT !.ev = Published(ev)])
         /\ UNCHANGED <<now, events, reservations, noShows>>

PublishSave(p) ==
    /\ pc[p] = "p_save"
    /\ events' = [events EXCEPT ![Loc(p).eventId] = Loc(p).ev]
    /\ Goto(p, "done", Finished(Loc(p), "ok"))
    /\ UNCHANGED <<now, reservations, noShows>>

EventCancelCheck(ev) ==
    IF ev.status = "canceled" THEN "BadRequestException" ELSE "ok"

EventCanceled(ev) == [ev EXCEPT !.status = "canceled"]

EventCancelFind(p, e, u, isAdmin) ==
    LET ev == events[e]
        l == [Blank EXCEPT !.op = "cancelEvent", !.eventId = e, !.user = u,
                           !.isAdmin = isAdmin]
    IN
    IF ~ev.exists THEN Reject(p, l, "NotFoundException")
    ELSE IF UpdatePermission(ev, u, isAdmin) # "ok"
    THEN Reject(p, l, UpdatePermission(ev, u, isAdmin))
    ELSE IF EventCancelCheck(ev) # "ok" THEN Reject(p, l, EventCancelCheck(ev))
    ELSE /\ Start(p, "e_save", [l EXCEPT !.ev = EventCanceled(ev)])
         /\ UNCHANGED <<now, events, reservations, noShows>>

EventCancelSave(p) ==
    /\ pc[p] = "e_save"
    /\ events' = [events EXCEPT ![Loc(p).eventId] = Loc(p).ev]
    /\ Goto(p, "done", Finished(Loc(p), "ok"))
    /\ UNCHANGED <<now, reservations, noShows>>

\* --------------------------------------------------- EventsService (remove)
RemoveCheckNone(ev) == "ok"

RemoveCheck(ev) ==
    IF ev.status = "published" /\ ev.registeredCount > 0
    THEN "BadRequestException" ELSE "ok"

RemoveFind(p, e, u, isAdmin) ==
    LET ev == events[e]
        l == [Blank EXCEPT !.op = "remove", !.eventId = e, !.user = u,
                           !.isAdmin = isAdmin]
    IN
    IF ~ev.exists THEN Reject(p, l, "NotFoundException")
    ELSE IF UpdatePermission(ev, u, isAdmin) # "ok"
    THEN Reject(p, l, UpdatePermission(ev, u, isAdmin))
    ELSE IF RemoveCheck(ev) # "ok" THEN Reject(p, l, RemoveCheck(ev))
    ELSE /\ Start(p, "d_delete", l)
         /\ UNCHANGED <<now, events, reservations, noShows>>

RemoveDelete(p) ==
    /\ pc[p] = "d_delete"
    /\ events' = [events EXCEPT ![Loc(p).eventId] = NoEvent]
    /\ Goto(p, "done", Finished(Loc(p), "ok"))
    /\ UNCHANGED <<now, reservations, noShows>>

\* ------------------------------------------------------------------- clock
\* Time passes, up to the moment the doors open for check-in.
DoorsOpen == EventStart - CheckInLeadHours

Tick ==
    /\ now < DoorsOpen
    /\ now' = DoorsOpen
    /\ UNCHANGED <<events, reservations, pc, loc, noShows>>

\* The instants of the fine clock: long before the event, with exactly the
\* cancellation window left, an hour later, when the doors open for
\* check-in, at the event's start, at its end, and an hour after that.
WindowCloses == EventStart - CancelWindowHours

Clock ==
    <<0, WindowCloses, WindowCloses + 1, DoorsOpen, EventStart, EventEnd,
      EventEnd + 1>>

\* Time passes from one instant of the fine clock to the next.
Advance ==
    /\ \E k \in 1..(Len(Clock) - 1) : now = Clock[k] /\ now' = Clock[k + 1]
    /\ UNCHANGED <<events, reservations, pc, loc, noShows>>

\* ---------------------------------------------------------- specifications
RidArgs == 1..(IF MaxRes > NumProcs THEN MaxRes ELSE NumProcs)

CreateRequest(p) ==
    \E e \in EventIds, n \in Tickets, u \in Users : CreateFindEvent(p, e, n, u)

CreateSteps(p) ==
    \/ CreateCheckExisting(p) \/ CreateSave(p) \/ ConfirmFindRes(p)
    \/ ConfirmIncFind(p) \/ ConfirmIncSave(p) \/ ConfirmSave(p)

CancelRequest(p) ==
    \/ \E rid \in RidArgs, u \in Users, reason \in Reasons :
          CancelFindRes(p, rid, u, FALSE, reason)
    \/ \E rid \in RidArgs, reason \in Reasons :
          CancelFindRes(p, rid, Organizer, TRUE, reason)

CancelSteps(p) ==
    \/ CancelFindEvent(p) \/ CancelDecFind(p) \/ CancelDecSave(p) \/ CancelSave(p)

Init ==
    /\ now = 0
    /\ \E cap \in 1..MaxCap : events = [e \in EventIds |-> PublishedEvent(cap)]
    /\ reservations = <<>>
    /\ pc = [p \in Procs |-> "idle"]
    /\ loc = [p \in Procs |-> Blank]
    /\ noShows = {}

\* The lifecycle engine serving one request at a time.
Next ==
    \/ Room(MaxRes) /\ CreateRequest(1)
    \/ CreateSteps(1)
    \/ \E rid \in RidArgs : ConfirmCall(1, rid)
    \/ CancelRequest(1) \/ CancelSteps(1)
    \/ \E rid \in RidArgs : CheckInFindRes(1, rid)
    \/ CheckInFindEvent(1) \/ CheckInSave(1)
    \/ \E rid \in RidArgs : MarkNoShowFindRes(1, rid)
    \/ MarkNoShowSave(1)
    \/ \E rid \in RidArgs : RefundFindRes(1, rid)
    \/ RefundSave(1)
    \/ Return(1)
    \/ Tick

Spec == Init /\ [][Next]_vars

\* One reservation followed through the fine clock, on an event of any
\* status: the store takes a Create only while it is empty.
EventStatuses == {"draft", "published", "canceled"}

InitClock ==
    /\ now = 0
    /\ \E cap \in 1..MaxCap, st \in EventStatuses :
          events = [e \in EventIds |-> [PublishedEvent(cap) EXCEPT !.status = st]]
    /\ reservations = <<>>
    /\ pc = [p \in Procs |-> "idle"]
    /\ loc = [p \in Procs |-> Blank]
    /\ noShows = {}

\* Worker p serving one request after the other on one reservation.
OneReservation(p) ==
    \/ reservations = <<>> /\ CreateRequest(p)
    \/ CreateSteps(p)
    \/ \E rid \in RidArgs : ConfirmCall(p, rid)
    \/ CancelRequest(p) \/ CancelSteps(p)
    \/ \E rid \in RidArgs : CheckInFindRes(p, rid)
    \/ CheckInFindEvent(p) \/ CheckInSave(p)
    \/ \E rid \in RidArgs : MarkNoShowFindRes(p, rid)
    \/ MarkNoShowSave(p)
    \/ \E rid \in RidArgs : RefundFindRes(p, rid)
    \/ RefundSave(p)
    \/ Return(p)

NextClock == OneReservation(1) \/ Advance

SpecClock == InitClock /\ [][NextClock]_vars

\* One reservation, and the organizer editing the event in between: a new
\* title, location and price, or the event moved by an hour.
UpdateDtos ==
    {[NoDto EXCEPT !.title = {"t2"}, !.location = {"l2"},
                   !.price = {PublishedEvent(MaxCap).price + 1}],
     [NoDto EXCEPT !.startDate = {EventStart + 1}, !.endDate = {EventEnd + 1}],
     [NoDto EXCEPT !.endDate = {EventStart}]}

UpdateRequest(p) ==
    \E e \in EventIds, dto \in UpdateDtos :
        \/ UpdateFind(p, e, dto, Organizer, FALSE)
        \/ \E u \in Users : UpdateFind(p, e, dto, u, FALSE)

NextUpdate ==
    \/ OneReservation(1)
    \/ UpdateRequest(1) \/ UpdateSave(1)
    \/ Tick

SpecUpdate == Init /\ [][NextUpdate]_vars

\* The engine serving one request at a time, the read-only requests
\* included: ticket downloads by participants and by the admin, and the
\* admin's QR code verifications.
TicketRequest(p) ==
    \/ \E rid \in RidArgs, u \in Users : GenerateTicketPdf(p, rid, u, FALSE)
    \/ \E rid \in RidArgs : GenerateTicketPdf(p, rid, Organizer, TRUE)

VerifyRequest(p) == \E code \in RidArgs : VerifyByQrCode(p, code)

NextRead == Next \/ TicketRequest(1) \/ VerifyRequest(1)

SpecRead == Init /\ [][NextRead]_vars

\* The counter operations called on their own, by every worker, on an event
\* of any status, capacity and counter.
InitCounter ==
    /\ now = 0
    /\ \E cap \in 1..MaxCap, cnt \in 0..MaxCap, st \in EventStatuses :
          /\ cnt <= cap
          /\ events = [e \in EventIds |->
                         [PublishedEvent(cap) EXCEPT !.status = st,
                                                     !.registeredCount = cnt]]
    /\ reservations = <<>>
    /\ pc = [p \in Procs |-> "idle"]
    /\ loc = [p \in Procs |-> Blank]
    /\ noShows = {}

NextCounter ==
    \E p \in Procs :
        \/ \E e \in EventIds : IncrementFind(p, e)
        \/ IncrementSave(p)
        \/ \E e \in EventIds : DecrementFind(p, e)
        \/ DecrementSave(p)
        \/ Return(p)

SpecCounter == InitCounter /\ [][NextCounter]_vars

\* The event registry on its own, serving one request at a time: an event
\* is created, edited, published, canceled and removed by its organizer, by a
\* stranger and by an admin, and the counter operations are called on it.
EventActors == {<<Organizer, FALSE>>, <<"u1", FALSE>>, <<"u2", TRUE>>}

CreateEventDtos ==
    {[NoDto EXCEPT !.title = {"t1"}, !.location = {"l1"},
                   !.startDate = {EventStart}, !.endDate = {end},
                   !.capacity = {cap}, !.price = {1}, !.status = st] :
        end \in {EventStart, EventEnd}, cap \in 1..MaxCap,
        st \in {{}} \cup {{s} : s \in EventStatuses}}

EventDtos ==
    {[NoDto EXCEPT !.status = {s}] : s \in EventStatuses}
    \cup {[NoDto EXCEPT !.capacity = {cap}] : cap \in 1..MaxCap}
    \cup {[NoDto EXCEPT !.registeredCount = {cnt}] : cnt \in 0..MaxCap}
    \cup {[NoDto EXCEPT !.status = {"published"},
                        !.startDate = {WindowCloses - 1}]}

InitEvents ==
    /\ now = 0
    /\ events = [e \in EventIds |-> NoEvent]
    /\ reservations = <<>>
    /\ pc = [p \in Procs |-> "idle"]
    /\ loc = [p \in Procs |-> Blank]
    /\ noShows = {}

EventRequest(p) ==
    \E e \in EventIds :
        \/ \E dto \in CreateEventDtos : EventCreate(p, e, dto, Organizer)
        \/ \E a \in EventActors :
              \/ \E dto \in EventDtos : UpdateFind(p, e, dto, a[1], a[2])
              \/ PublishFind(p, e, a[1], a[2])
              \/ EventCancelFind(p, e, a[1], a[2])
              \/ RemoveFind(p, e, a[1], a[2])
        \/ IncrementFind(p, e)
        \/ DecrementFind(p, e)

EventSteps(p) ==
    \/ UpdateSave(p) \/ PublishSave(p) \/ EventCancelSave(p) \/ RemoveDelete(p)
    \/ IncrementSave(p) \/ DecrementSave(p)

NextEvents == EventRequest(1) \/ EventSteps(1) \/ Return(1) \/ Advance

SpecEvents == InitEvents /\ [][NextEvents]_vars

\* Creates served one at a time while the organizer cancels and removes the
\* event and the clock runs past the event.
NextPrecedence ==
    \/ CreateRequest(1) \/ CreateSteps(1)
    \/ \E e \in EventIds :
          \/ EventCancelFind(1, e, Organizer, FALSE)
          \/ RemoveFind(1, e, Organizer, FALSE)
    \/ EventCancelSave(1) \/ RemoveDelete(1)
    \/ Return(1)
    \/ Advance

SpecPrecedence == Init /\ [][NextPrecedence]_vars

\* Worker 1 serves Creates and the admin's Confirms while worker 2 serves
\* the organizer's cancellation of the event.
NextClosing ==
    \/ Room(MaxRes) /\ CreateRequest(1)
    \/ CreateSteps(1)
    \/ \E rid \in RidArgs : ConfirmCall(1, rid)
    \/ Return(1)
    \/ \E e \in EventIds : EventCancelFind(2, e, Organizer, FALSE)
    \/ EventCancelSave(2)
    \/ Return(2)

SpecClosing == Init /\ [][NextClosing]_vars

\* Every other request in flight is an operation of the given kind on
\* reservation rid.
OnlyWith(p, ops, rid) ==
    \A q \in Procs \ {p} :
        InFlight(q) => loc[q].op \in ops /\ loc[q].rid = rid

\* Creates are served while nothing else runs; Cancels of one and the same
\* reservation, by its owner, by a stranger and by the admin, run
\* concurrently on every worker.
CancelSame(p) ==
    \E rid \in RidArgs, reason \in Reasons :
        /\ OnlyWith(p, {"cancel"}, rid)
        /\ \/ \E u \in Users : CancelFindRes(p, rid, u, FALSE, reason)
           \/ CancelFindRes(p, rid, Organizer, TRUE, reason)

NextCancels ==
    \/ Room(NumProcs) /\ NoOtherInFlight(1) /\ CreateRequest(1)
    \/ CreateSteps(1)
    \/ \E p \in Procs : CancelSame(p) \/ CancelSteps(p) \/ Return(p)

SpecCancels == Init /\ [][NextCancels]_vars

\* A Create on worker 1, whose Confirm runs by itself, and the admin's
\* Confirm requests on every worker.
NextConfirms ==
    \/ Room(MaxRes) /\ CreateRequest(1)
    \/ \E p \in Procs :
          \/ CreateSteps(p)
          \/ \E rid \in RidArgs : ConfirmCall(p, rid)
          \/ Return(p)

SpecConfirms == Init /\ [][NextConfirms]_vars

\* Creates are served while nothing else runs; Cancel, CheckIn and
\* markNoShow requests for one and the same reservation run concurrently on
\* every worker, before and after the doors open.
DoorOps == {"cancel", "checkIn", "markNoShow"}

DoorRequest(p) ==
    \E rid \in RidArgs :
        /\ OnlyWith(p, DoorOps, rid)
        /\ \/ \E u \in Users, reason \in Reasons :
                 CancelFindRes(p, rid, u, FALSE, reason)
           \/ \E reason \in Reasons : CancelFindRes(p, rid, Organizer, TRUE, reason)
           \/ CheckInFindRes(p, rid)
           \/ MarkNoShowFindRes(p, rid)

DoorSteps(p) ==
    \/ CancelSteps(p)
    \/ CheckInFindEvent(p) \/ CheckInSave(p)
    \/ MarkNoShowSave(p)

NextDoor ==
    \/ Room(MaxRes) /\ NoOtherInFlight(1) /\ CreateRequest(1)
    \/ CreateSteps(1)
    \/ \E p \in Procs : DoorRequest(p) \/ DoorSteps(p) \/ Return(p)
    \/ Tick

SpecDoor == Init /\ [][NextDoor]_vars

\* Worker 1 serves the Creates, each with its own Confirm; worker 2 serves,
\* at the same time, the Confirm, Cancel, CheckIn, markNoShow and Refund
\* requests for the reservations made so far.
LifeRequestOn(p, rid) ==
    \/ ConfirmCall(p, rid)
    \/ \E u \in Users, reason \in Reasons :
          CancelFindRes(p, rid, u, FALSE, reason)
    \/ \E reason \in Reasons : CancelFindRes(p, rid, Organizer, TRUE, reason)
    \/ CheckInFindRes(p, rid)
    \/ MarkNoShowFindRes(p, rid)
    \/ RefundFindRes(p, rid)

LifeRequest(p) == \E rid \in RidArgs : LifeRequestOn(p, rid)

LifeSteps(p) ==
    \/ ConfirmIncFind(p) \/ ConfirmIncSave(p) \/ ConfirmSave(p)
    \/ CancelSteps(p)
    \/ CheckInFindEvent(p) \/ CheckInSave(p)
    \/ MarkNoShowSave(p)
    \/ RefundSave(p)

NextLife ==
    \/ Room(MaxRes) /\ CreateRequest(1)
    \/ CreateSteps(1)
    \/ LifeRequest(2)
    \/ LifeSteps(2)
    \/ \E p \in Procs : Return(p)
    \/ Tick

SpecLife == Init /\ [][NextLife]_vars

\* The same requests under the scheduling of the runtime: a request that
\* has a step to take is not kept waiting forever, and a finished request's
\* response is sent.  (New requests need not keep coming.)
FairLife ==
    /\ WF_vars(CreateSteps(1))
    /\ WF_vars(LifeSteps(2))
    /\ \A p \in Procs : WF_vars(Return(p))

SpecLifeFair == Init /\ [][NextLife]_vars /\ FairLife

\* Two events, each with a reservation, pending or confirmed, of its own
\* user; every engine operation, for either reservation and for one that does
\* not exist, one request at a time.
PairEvents == {1, 2}

PairReservation(e, u, n, status) ==
    LET res == [NewReservation(PublishedEvent(MaxCap), e, n, u)
                   EXCEPT !.qrCode = e]
    IN IF status = "confirmed" THEN Confirmed(res, 0) ELSE res

InitPair ==
    /\ now = 0
    /\ \E n \in {k \in Tickets : k <= MaxCap} :
       \E status \in [PairEvents -> {"pending", "confirmed"}] :
          /\ events =
                [e \in PairEvents |->
                    [PublishedEvent(MaxCap) EXCEPT
                        !.registeredCount =
                            IF status[e] = "confirmed" THEN n ELSE 0]]
          /\ reservations =
                <<PairReservation(1, "u1", n, status[1]),
                  PairReservation(2, "u2", n, status[2])>>
    /\ pc = [p \in Procs |-> "idle"]
    /\ loc = [p \in Procs |-> Blank]
    /\ noShows = {}

NextPair ==
    \/ \E rid \in 1..3 : LifeRequestOn(1, rid)
    \/ LifeSteps(1)
    \/ Return(1)
    \/ Tick

SpecPair == InitPair /\ [][NextPair]_vars

\* Concurrent Create requests, one per worker, each running to its end.
NextCreate == \E p \in Procs : CreateRequest(p) \/ CreateSteps(p)

SpecCreate == Init /\ [][NextCreate]_vars

\* Worker 1 serves Create and Cancel requests without end while every other
\* worker serves one Create.
NextRace ==
    \/ \E p \in Procs : (Room(NumProcs) /\ CreateRequest(p)) \/ CreateSteps(p)
    \/ CancelRequest(1) \/ CancelSteps(1)
    \/ Return(1)

SpecRace == Init /\ [][NextRace]_vars

\* ---------------------------------------------------------------- helpers
RECURSIVE SumTickets(_)
SumTickets(S) ==
    IF S = {} THEN 0
    ELSE LET r == CHOOSE x \in S : TRUE
         IN reservations[r].numberOfTickets + SumTickets(S \ {r})

RECURSIVE SumIncrements(_)
SumIncrements(P) ==
    IF P = {} THEN 0
    ELSE LET p == CHOOSE x \in P : TRUE IN loc[p].i + SumIncrements(P \ {p})

Quiescent == \A p \in Procs : pc[p] \in {"idle", "done"}

CreateDone(p) == pc[p] = "done" /\ loc[p].op = "create"

\* The request failed inside Confirm's increment loop: Confirm had loaded the
\* pending reservation and an incrementRegisteredCount call threw.
ConfirmFailedInLoop(p) ==
    /\ pc[p] = "done"
    /\ loc[p].op \in {"create", "confirm"}
    /\ loc[p].result # "ok"
    /\ loc[p].res.status = "pending"

\* The reservations of event e whose capacity is held.
Held(e) ==
    {r \in DOMAIN reservations :
        /\ reservations[r].eventId = e
        /\ \/ reservations[r].status \in {"confirmed", "checked_in"}
           \/ r \in noShows}

CancelDone(p) ==
    /\ pc[p] = "done"
    /\ loc[p].op = "cancel"
    /\ loc[p].result = "ok"

AllowedStatusChanges ==
    {<<"pending", "confirmed">>, <<"pending", "canceled">>,
     <<"confirmed", "canceled">>, <<"confirmed", "checked_in">>,
     <<"confirmed", "no_show">>, <<"canceled", "refunded">>,
     <<"no_show", "refunded">>}

\* Request p has finished operation op on a reservation it had found, with
\* no other request in flight since it arrived.
DoneAlone(p, op) ==
    /\ pc[p] = "done"
    /\ loc[p].op = op
    /\ loc[p].res.status # "none"
    /\ loc[p].alone

\* The request has changed neither its reservation nor the counter of the
\* reservation's event.
NothingChanged(p) ==
    /\ reservations[loc[p].rid] = loc[p].res
    /\ events[loc[p].res.eventId].registeredCount = loc[p].cnt0

\* Who asked for the Cancel.
ByOwnerOrAdmin(p) == loc[p].isAdmin \/ loc[p].user = loc[p].res.userId

\* The operations on an existing reservation.
ReservationOps == {"confirm", "cancel", "checkIn", "markNoShow", "refund"}

\* ------------------------------------------------------------------ claims

\* C1: under every interleaving of concurrent Create requests (and the
\* Confirm each triggers), every event's registeredCount stays within
\* 0..capacity in every reachable state.
C1_CountWithinCapacity ==
    \A e \in EventIds :
        /\ events[e].registeredCount >= 0
        /\ events[e].registeredCount <= events[e].capacity

\* C1 witness: the event is full and a concurrent Create that had passed the
\* overbooking check was stopped by the increment guard.
C1_Witness ==
    \E p \in Procs, e \in EventIds :
        /\ events[e].registeredCount = events[e].capacity
        /\ ConfirmFailedInLoop(p)
        /\ loc[p].op = "create"

\* C2: capacity 1, two different users each run Create(numberOfTickets = 1)
\* concurrently and nothing else runs: exactly one returns a confirmed
\* reservation and the other fails with ConflictException.
C2_LastSpotOnce ==
    \A p, q \in Procs, e \in EventIds :
        ( /\ p # q
          /\ events[e].capacity = 1
          /\ CreateDone(p) /\ CreateDone(q)
          /\ loc[p].eventId = e /\ loc[q].eventId = e
          /\ loc[p].user # loc[q].user
          /\ loc[p].n = 1 /\ loc[q].n = 1
          /\ \A o \in Procs \ {p, q} : pc[o] = "idle" )
        => \/ loc[p].result = "ok" /\ loc[q].result = "ConflictException"
           \/ loc[q].result = "ok" /\ loc[p].result = "ConflictException"

\* C3: the counter operations are atomic, so the successful increments of
\* concurrent requests all count: registeredCount equals the number of
\* increment calls that have succeeded (no decrement runs here).
C3_NoLostIncrement ==
    \A e \in EventIds :
        events[e].registeredCount =
            SumIncrements({p \in Procs : loc[p].res.eventId = e})

\* C5: at most one reservation in status pending or confirmed per
\* (user, event) pair, in every reachable state.
C5_SingleActiveReservation ==
    \A u \in Users, e \in EventIds :
        Cardinality({r \in DOMAIN reservations :
                        /\ reservations[r].userId = u
                        /\ reservations[r].eventId = e
                        /\ reservations[r].status \in ActiveStatuses}) <= 1

\* C6: a Confirm that failed in its increment loop, and during which no
\* other request ran, leaves registeredCount at the value it had when Confirm
\* was invoked.
C6_ConfirmAllOrNothing ==
    \A p \in Procs :
        (ConfirmFailedInLoop(p) /\ loc[p].alone)
        => events[loc[p].res.eventId].registeredCount = loc[p].cnt0

\* C7: a completed Create either returned a confirmed reservation or failed
\* and left no pending reservation of its own in the store.
C7_CreateFinalOutcome ==
    \A p \in Procs :
        CreateDone(p)
        => \/ /\ loc[p].result = "ok"
              /\ reservations[loc[p].rid].status = "confirmed"
           \/ /\ loc[p].result # "ok"
              /\ \/ loc[p].rid = 0
                 \/ reservations[loc[p].rid].status # "pending"

\* C4: whenever no engine operation is in progress, every event's
\* registeredCount equals the sum of numberOfTickets over its reservations
\* that are confirmed, checked_in or were marked no_show.
C4_CountMatchesHeldTickets ==
    Quiescent
    => \A e \in EventIds : events[e].registeredCount = SumTickets(Held(e))

\* C8: every status change of a stored reservation is one of
\* pending->confirmed, pending->canceled, confirmed->canceled,
\* confirmed->checked_in, confirmed->no_show, canceled->refunded and
\* no_show->refunded.
C8_OnlyAllowedTransitions ==
    [][\A r \in DOMAIN reservations :
          \/ reservations'[r].status = reservations[r].status
          \/ <<reservations[r].status, reservations'[r].status>>
                \in AllowedStatusChanges]_vars

\* C9: a successful Cancel of a reservation that was confirmed, with no other
\* request running meanwhile, leaves it canceled and registeredCount lower
\* by exactly numberOfTickets than when Cancel was invoked.
C9_CancelReleasesEveryTicket ==
    \A p \in Procs :
        (CancelDone(p) /\ loc[p].res.status = "confirmed" /\ loc[p].alone)
        => /\ reservations[loc[p].rid].status = "canceled"
           /\ events[loc[p].res.eventId].registeredCount
                 = loc[p].cnt0 - loc[p].res.numberOfTickets

\* C10: a Cancel of a reservation that was pending never calls decrement,
\* and when it has succeeded with no other request running meanwhile,
\* registeredCount is what it was when Cancel was invoked.
C10_CancelPendingKeepsCount ==
    \A p \in Procs :
        (loc[p].op = "cancel" /\ loc[p].res.status = "pending")
        => /\ pc[p] \notin {"x_decFind", "x_decSave"}
           /\ loc[p].i = 0
           /\ (CancelDone(p) /\ loc[p].alone)
              => events[loc[p].res.eventId].registeredCount = loc[p].cnt0

\* C10 witness: a Cancel of a pending reservation has succeeded, alone, on
\* an event whose counter is above zero.
C10_Witness ==
    \E p \in Procs :
        /\ CancelDone(p)
        /\ loc[p].alone
        /\ loc[p].res.status = "pending"
        /\ reservations[loc[p].rid].status = "canceled"
        /\ events[loc[p].res.eventId].registeredCount > 0

\* C11: a Cancel, by the owner or by an admin, of a reservation that is
\* canceled, refunded or checked_in fails with BadRequestException and
\* changes neither the reservation nor registeredCount.
C11_CancelRejectedAfterEnd ==
    \A p \in Procs :
        ( /\ DoneAlone(p, "cancel")
          /\ ByOwnerOrAdmin(p)
          /\ loc[p].res.status \in {"canceled", "refunded", "checked_in"} )
        => /\ loc[p].result = "BadRequestException"
           /\ NothingChanged(p)

\* C11 witness: an admin's Cancel of a checked_in reservation has failed.
C11_Witness ==
    \E p \in Procs :
        /\ DoneAlone(p, "cancel")
        /\ loc[p].isAdmin
        /\ loc[p].res.status = "checked_in"
        /\ loc[p].result = "BadRequestException"

\* C12: a Cancel by someone who is neither the owner nor an admin fails with
\* ForbiddenException whatever the reservation's status and the time, and
\* changes neither the reservation nor registeredCount.
C12_CancelForbiddenForStranger ==
    \A p \in Procs :
        (DoneAlone(p, "cancel") /\ ~ByOwnerOrAdmin(p))
        => /\ loc[p].result = "ForbiddenException"
           /\ NothingChanged(p)

\* C12 witness: a stranger's Cancel of a checked_in reservation, inside the
\* cancellation window, has failed with ForbiddenException.
C12_Witness ==
    \E p \in Procs :
        /\ DoneAlone(p, "cancel")
        /\ ~ByOwnerOrAdmin(p)
        /\ loc[p].res.status = "checked_in"
        /\ EventStart - now < CancelWindowHours
        /\ loc[p].result = "ForbiddenException"

\* C13: a Cancel of a pending or confirmed reservation by its owner, not an
\* admin, fails with BadRequestException exactly when fewer than 24 hours
\* remain until the event's startDate, and succeeds otherwise; an admin's
\* Cancel succeeds whatever time remains.
C13_CancelWindow ==
    \A p \in Procs :
        ( /\ DoneAlone(p, "cancel")
          /\ ByOwnerOrAdmin(p)
          /\ loc[p].res.status \in {"pending", "confirmed"} )
        => IF /\ ~loc[p].isAdmin
              /\ events[loc[p].res.eventId].startDate - loc[p].t < CancelWindowHours
           THEN loc[p].result = "BadRequestException"
           ELSE /\ loc[p].result = "ok"
                /\ reservations[loc[p].rid].status = "canceled"

\* C13 witness: the owner's Cancel made with exactly 24 hours left has
\* succeeded.
C13_Witness ==
    \E p \in Procs :
        /\ DoneAlone(p, "cancel")
        /\ ~loc[p].isAdmin
        /\ loc[p].res.status = "confirmed"
        /\ events[loc[p].res.eventId].startDate - loc[p].t = CancelWindowHours
        /\ loc[p].result = "ok"

\* C14: CheckIn succeeds exactly when the reservation is confirmed and the
\* time lies in [startDate - 2h, endDate], both ends included; it then sets
\* status checked_in and checkedInAt and nothing else; otherwise it fails
\* with BadRequestException and changes nothing.  registeredCount is never
\* changed.
C14_CheckInWindow ==
    \A p \in Procs :
        DoneAlone(p, "checkIn")
        => LET res == loc[p].res
               ev == events[res.eventId]
               after == reservations[loc[p].rid]
           IN
           IF /\ res.status = "confirmed"
              /\ loc[p].t >= ev.startDate - CheckInLeadHours
              /\ loc[p].t <= ev.endDate
           THEN /\ loc[p].result = "ok"
                /\ after.checkedInAt # {}
                /\ after = [res EXCEPT !.status = "checked_in",
                                       !.checkedInAt = after.checkedInAt]
                /\ ev.registeredCount = loc[p].cnt0
           ELSE /\ loc[p].result = "BadRequestException"
                /\ NothingChanged(p)

\* C14 witness: a CheckIn made at the event's endDate has succeeded.
C14_Witness ==
    \E p \in Procs :
        /\ DoneAlone(p, "checkIn")
        /\ loc[p].t = events[loc[p].res.eventId].endDate
        /\ loc[p].result = "ok"
        /\ reservations[loc[p].rid].status = "checked_in"

\* C17: a Create for an event that is not published, or whose startDate is
\* not after the time of the request, fails with BadRequestException, saves
\* no reservation and leaves registeredCount unchanged.
C17_CreateNeedsOpenEvent ==
    \A p \in Procs :
        ( /\ pc[p] = "done" /\ loc[p].op = "create" /\ loc[p].alone
          /\ \/ events[loc[p].eventId].status # "published"
             \/ events[loc[p].eventId].startDate <= loc[p].t )
        => /\ loc[p].result = "BadRequestException"
           /\ loc[p].rid = 0
           /\ reservations = <<>>
           /\ events[loc[p].eventId].registeredCount = loc[p].cnt0

\* C17 witness: a Create for a published event, made at the very instant of
\* its startDate, has failed.
C17_Witness ==
    \E p \in Procs :
        /\ pc[p] = "done" /\ loc[p].op = "create" /\ loc[p].alone
        /\ events[loc[p].eventId].status = "published"
        /\ events[loc[p].eventId].startDate = loc[p].t
        /\ loc[p].result = "BadRequestException"

\* C15 as stated: every confirm, cancel, checkIn, markNoShow and refund on a
\* reservation that is checked_in or refunded fails with
\* BadRequestException and leaves the reservation as it is.
C15_AbsorbingAsStated ==
    \A p \in Procs, op \in ReservationOps :
        (DoneAlone(p, op) /\ loc[p].res.status \in {"checked_in", "refunded"})
        => /\ loc[p].result = "BadRequestException"
           /\ NothingChanged(p)

\* C15 amended: every confirm, cancel, checkIn, markNoShow and refund on a
\* reservation that is checked_in or refunded fails and leaves the
\* reservation as it is; the failure is BadRequestException, except for a
\* cancel by someone who is neither owner nor admin, which fails with
\* ForbiddenException.
C15_Absorbing ==
    \A p \in Procs, op \in ReservationOps :
        (DoneAlone(p, op) /\ loc[p].res.status \in {"checked_in", "refunded"})
        => /\ loc[p].result = IF op = "cancel" /\ ~ByOwnerOrAdmin(p)
                              THEN "ForbiddenException"
                              ELSE "BadRequestException"
           /\ NothingChanged(p)

\* C15 witness: a second CheckIn of a checked_in reservation, inside the
\* check-in window, has failed.
C15_Witness ==
    \E p \in Procs :
        /\ DoneAlone(p, "checkIn")
        /\ loc[p].res.status = "checked_in"
        /\ CheckInWindowCheck(events[loc[p].res.eventId], now) = "ok"
        /\ loc[p].result = "BadRequestException"

\* C16: a Confirm (the admin's, or the one Create runs) that has succeeded
\* had loaded a pending reservation, has left it confirmed with confirmedAt
\* set and has raised registeredCount by exactly numberOfTickets; a Confirm
\* of a reservation in any other status fails with BadRequestException
\* without an increment and changes nothing.
C16_ConfirmOnlyPending ==
    \A p \in Procs :
        /\ ( /\ pc[p] = "done" /\ loc[p].op \in {"create", "confirm"}
             /\ loc[p].result = "ok" /\ loc[p].alone )
           => /\ loc[p].res.status = "pending"
              /\ reservations[loc[p].rid].status = "confirmed"
              /\ reservations[loc[p].rid].confirmedAt # {}
              /\ events[loc[p].res.eventId].registeredCount
                    = loc[p].cnt0 + loc[p].res.numberOfTickets
        /\ (DoneAlone(p, "confirm") /\ loc[p].res.status # "pending")
           => /\ loc[p].result = "BadRequestException"
              /\ loc[p].i = 0
              /\ NothingChanged(p)

\* C16 witness: the Confirm of a Create for more than one ticket has
\* succeeded.
C16_Witness ==
    \E p \in Procs :
        /\ pc[p] = "done" /\ loc[p].op = "create" /\ loc[p].alone
        /\ loc[p].result = "ok"
        /\ loc[p].res.numberOfTickets > 1
        /\ reservations[loc[p].rid].status = "confirmed"

\* C18: a Create that arrives asking for more tickets than
\* capacity - registeredCount of a published, future event fails at once
\* with ConflictException, and neither the store nor the counter changes.
C18_CreateOverCapacity ==
    [][\A p \in Procs :
          ( /\ pc[p] = "idle" /\ pc'[p] # "idle" /\ loc'[p].op = "create"
            /\ ValidateEventForReservation(events[loc'[p].eventId], now) = "ok"
            /\ events[loc'[p].eventId].capacity
                  - events[loc'[p].eventId].registeredCount < loc'[p].n )
          => /\ pc'[p] = "done"
             /\ loc'[p].result = "ConflictException"
             /\ loc'[p].rid = 0
             /\ UNCHANGED <<events, reservations>>]_vars

\* C18 witness: a Create for more tickets than were left on a partly booked
\* event has failed with ConflictException.
C18_Witness ==
    \E p \in Procs :
        /\ pc[p] = "done" /\ loc[p].op = "create" /\ loc[p].alone
        /\ loc[p].res.status = "none" /\ loc[p].rid = 0
        /\ loc[p].cnt0 > 0
        /\ events[loc[p].eventId].registeredCount = loc[p].cnt0
        /\ events[loc[p].eventId].capacity - loc[p].cnt0 < loc[p].n
        /\ events[loc[p].eventId].capacity - loc[p].cnt0 > 0
        /\ loc[p].result = "ConflictException"

\* C20: markNoShow succeeds exactly on a confirmed reservation, whose status
\* it sets to no_show and nothing else; on any other status it fails with
\* BadRequestException and changes nothing.  registeredCount is never
\* changed.
C20_NoShowOnlyConfirmed ==
    \A p \in Procs :
        DoneAlone(p, "markNoShow")
        => IF loc[p].res.status = "confirmed"
           THEN /\ loc[p].result = "ok"
                /\ reservations[loc[p].rid] = [loc[p].res EXCEPT !.status = "no_show"]
                /\ events[loc[p].res.eventId].registeredCount = loc[p].cnt0
           ELSE /\ loc[p].result = "BadRequestException"
                /\ NothingChanged(p)

\* C20 witness: a confirmed reservation has been marked no_show and its
\* tickets still count.
C20_Witness ==
    \E p \in Procs :
        /\ DoneAlone(p, "markNoShow")
        /\ loc[p].result = "ok"
        /\ reservations[loc[p].rid].status = "no_show"
        /\ events[loc[p].res.eventId].registeredCount
              = loc[p].res.numberOfTickets

\* C19: a reservation is saved with totalPrice = event.price x
\* numberOfTickets and with the event's title, startDate and location of
\* that moment, and no later step, of the engine or of an event update,
\* changes its totalPrice, eventId, numberOfTickets, eventTitle, eventDate
\* or eventLocation.
C19_CreationFieldsImmutable ==
    [][\A r \in DOMAIN reservations' :
          LET new == reservations'[r] IN
          IF r \in DOMAIN reservations
          THEN LET old == reservations[r] IN
               /\ new.totalPrice = old.totalPrice
               /\ new.eventId = old.eventId
               /\ new.numberOfTickets = old.numberOfTickets
               /\ new.eventTitle = old.eventTitle
               /\ new.eventDate = old.eventDate
               /\ new.eventLocation = old.eventLocation
          ELSE LET ev == events[new.eventId] IN
               /\ new.totalPrice = ev.price * new.numberOfTickets
               /\ new.eventTitle = ev.title
               /\ new.eventDate = ev.startDate
               /\ new.eventLocation = ev.location]_vars

\* C19 witness: the event's price, title, location and startDate have all
\* been changed after the reservation was made, the reservation has been
\* canceled and refunded, and it still carries the values of its creation.
C19_Witness ==
    \E r \in DOMAIN reservations :
        LET res == reservations[r]
            ev == events[res.eventId]
        IN
        /\ res.status = "refunded"
        /\ res.totalPrice # ev.price * res.numberOfTickets
        /\ res.eventTitle # ev.title
        /\ res.eventLocation # ev.location
        /\ res.eventDate # ev.startDate
        /\ res.totalPrice = PublishedEvent(MaxCap).price * res.numberOfTickets
        /\ res.eventDate = EventStart

\* C21: refund succeeds exactly on a reservation that is canceled or
\* no_show, whose status it sets to refunded and nothing else; on pending,
\* confirmed, checked_in or refunded it fails with BadRequestException and
\* changes nothing.  registeredCount is never changed.
C21_RefundOnlyCanceledOrNoShow ==
    \A p \in Procs :
        DoneAlone(p, "refund")
        => IF loc[p].res.status \in {"canceled", "no_show"}
           THEN /\ loc[p].result = "ok"
                /\ reservations[loc[p].rid] = [loc[p].res EXCEPT !.status = "refunded"]
                /\ events[loc[p].res.eventId].registeredCount = loc[p].cnt0
           ELSE /\ loc[p].result = "BadRequestException"
                /\ NothingChanged(p)

\* C21 witness: a no_show reservation has been refunded and its tickets
\* still count.
C21_Witness ==
    \E p \in Procs :
        /\ DoneAlone(p, "refund")
        /\ loc[p].res.status = "no_show"
        /\ loc[p].result = "ok"
        /\ reservations[loc[p].rid].status = "refunded"
        /\ events[loc[p].res.eventId].registeredCount
              = loc[p].res.numberOfTickets

\* The stored reservations that carry the code.
Carrying(code) == {r \in DOMAIN reservations : reservations[r].qrCode = code}

\* C22: verifyByQrCode answers valid exactly when a stored reservation
\* carries the code and is confirmed; an unknown code, a canceled, a
\* checked_in and any other reservation each get valid = false with their
\* own message, tested in that order; the call changes no reservation and
\* no event.
C22_VerifyReadOnly ==
    [][\A p \in Procs :
          (pc[p] = "idle" /\ pc'[p] # "idle" /\ loc'[p].op = "verify")
          => LET found == Carrying(loc'[p].qrCode)
                 statuses == {reservations[r].status : r \in found}
             IN
             /\ pc'[p] = "done"
             /\ loc'[p].valid <=> "confirmed" \in statuses
             /\ loc'[p].result =
                   IF found = {} THEN "Code de reservation invalide"
                   ELSE IF "canceled" \in statuses
                   THEN "Cette reservation a ete annulee"
                   ELSE IF "checked_in" \in statuses
                   THEN "Cette reservation a deja ete utilisee"
                   ELSE IF "confirmed" \notin statuses
                   THEN "Cette reservation n'est pas valide"
                   ELSE "Reservation valide"
             /\ UNCHANGED <<events, reservations>>]_vars

\* C22 witness: the code of a checked_in reservation has been verified and
\* found used, and the reservation is still checked_in.
C22_Witness ==
    \E p \in Procs :
        /\ pc[p] = "done" /\ loc[p].op = "verify"
        /\ loc[p].res.status = "checked_in"
        /\ ~loc[p].valid
        /\ loc[p].result = "Cette reservation a deja ete utilisee"
        /\ reservations[loc[p].rid] = loc[p].res

\* C23: generateTicketPdf renders the ticket exactly when the requester is
\* the reservation's owner or an admin and the status is confirmed or
\* checked_in; anyone else gets ForbiddenException whatever the status, and
\* an owner or admin gets BadRequestException on every other status.
\* Nothing is changed in either case.
C23_TicketOnlyForHolder ==
    \A p \in Procs :
        DoneAlone(p, "ticket")
        => /\ loc[p].result =
                 IF ~ByOwnerOrAdmin(p) THEN "ForbiddenException"
                 ELSE IF loc[p].res.status \notin {"confirmed", "checked_in"}
                 THEN "BadRequestException"
                 ELSE "ok"
           /\ NothingChanged(p)

\* C23 witness: a stranger asking for the ticket of a canceled reservation
\* has got ForbiddenException, not BadRequestException.
C23_Witness ==
    \E p \in Procs :
        /\ DoneAlone(p, "ticket")
        /\ ~ByOwnerOrAdmin(p)
        /\ loc[p].res.status = "canceled"
        /\ loc[p].result = "ForbiddenException"

\* C24: an incrementRegisteredCount call on an event that is not published,
\* or whose registeredCount has reached capacity, fails and leaves the event
\* as it is; any other call, left undisturbed, raises registeredCount by
\* exactly 1 and changes nothing else of the event.
C24_IncrementGuarded ==
    [][\A p \in Procs :
          /\ (pc[p] = "idle" /\ pc'[p] # "idle" /\ loc'[p].op = "increment")
             => LET ev == events[loc'[p].eventId] IN
                /\ UNCHANGED events
                /\ IF \/ ev.status # "published"
                      \/ ev.registeredCount >= ev.capacity
                   THEN pc'[p] = "done" /\ loc'[p].result = "BadRequestException"
                   ELSE pc'[p] = "inc_save"
          /\ (pc[p] = "inc_save" /\ pc'[p] # "inc_save" /\ loc[p].alone)
             => /\ loc'[p].result = "ok"
                /\ events' =
                      [events EXCEPT ![loc[p].eventId].registeredCount = @ + 1]]_vars

\* C24 witness: an increment on a draft event with room left has failed.
C24_Witness ==
    \E p \in Procs :
        /\ pc[p] = "done" /\ loc[p].op = "increment" /\ loc[p].alone
        /\ events[loc[p].eventId].status = "draft"
        /\ events[loc[p].eventId].registeredCount < events[loc[p].eventId].capacity
        /\ events[loc[p].eventId].registeredCount = loc[p].cnt0
        /\ loc[p].result = "BadRequestException"

\* C25: a decrementRegisteredCount call at registeredCount = 0 returns
\* without a save and leaves the event as it is; any other call, left
\* undisturbed, lowers registeredCount by exactly 1; and registeredCount is
\* never negative, whatever the calls and their interleaving.
C25_DecrementFloorsAtZero ==
    [][/\ \A e \in EventIds : events'[e].registeredCount >= 0
       /\ \A p \in Procs :
          /\ (pc[p] = "idle" /\ pc'[p] # "idle" /\ loc'[p].op = "decrement")
             => LET ev == events[loc'[p].eventId] IN
                /\ UNCHANGED events
                /\ IF ev.registeredCount = 0
                   THEN pc'[p] = "done" /\ loc'[p].result = "ok"
                   ELSE pc'[p] = "dec_save"
          /\ (pc[p] = "dec_save" /\ pc'[p] # "dec_save" /\ loc[p].alone)
             => /\ loc'[p].result = "ok"
                /\ events' =
                      [events EXCEPT ![loc[p].eventId].registeredCount = @ - 1]]_vars

\* C25 witness: a decrement at zero has returned and the counter is still
\* zero.
C25_Witness ==
    \E q \in Procs :
        /\ pc[q] = "done" /\ loc[q].op = "decrement" /\ loc[q].result = "ok"
        /\ loc[q].alone /\ loc[q].cnt0 = 0
        /\ events[loc[q].eventId].registeredCount = 0
        /\ events[loc[q].eventId].capacity > 0

\* Some request is making the save of a counter operation.
CounterSaveStep ==
    \E p \in Procs :
        /\ pc[p] \in {"inc_save", "dec_save", "k_incSave", "x_decSave"}
        /\ pc'[p] # pc[p]

\* C26: the registeredCount of an existing event changes only in the save
\* of an incrementRegisteredCount or decrementRegisteredCount call; no
\* update, publish or cancel of the event assigns it.
C26_CountOnlyByCounterOps ==
    [][\A e \in EventIds :
          ( /\ events[e].exists /\ events'[e].exists
            /\ events'[e].registeredCount # events[e].registeredCount )
          => CounterSaveStep]_vars

\* C27: the status of an existing event never moves backward: a canceled
\* event stays canceled and a published event never becomes draft again,
\* whatever publish, cancel and update requests are served.
C27_EventStatusMonotonic ==
    [][\A e \in EventIds :
          (events[e].exists /\ events'[e].exists)
          => /\ events[e].status = "canceled" => events'[e].status = "canceled"
             /\ events[e].status = "published" => events'[e].status # "draft"]_vars

\* C27 witness: an admin's update asking to publish a canceled event again
\* has been rejected, and the event is still canceled.
C27_Witness ==
    \E p \in Procs :
        /\ pc[p] = "done" /\ loc[p].op = "update" /\ loc[p].isAdmin
        /\ loc[p].dto.status = {"published"}
        /\ events[loc[p].eventId].status = "canceled"
        /\ loc[p].result = "BadRequestException"

\* C28 as stated: every event that appears in the store starts in status
\* draft with registeredCount = 0.
C28_CreatedDraftAsStated ==
    [][\A e \in EventIds :
          (~events[e].exists /\ events'[e].exists)
          => /\ events'[e].status = "draft"
             /\ events'[e].registeredCount = 0]_vars

\* C28 amended: every event that appears in the store starts with
\* registeredCount = 0 and in the status its creation request carries,
\* draft when the request carries none.
C28_CreatedWithGivenStatus ==
    [][\A e \in EventIds :
          (~events[e].exists /\ events'[e].exists)
          => \E p \in Procs :
                /\ pc[p] = "idle" /\ pc'[p] = "done"
                /\ loc'[p].op = "createEvent" /\ loc'[p].eventId = e
                /\ events'[e].registeredCount = 0
                /\ events'[e].status =
                      IF loc'[p].dto.status = {} THEN "draft"
                      ELSE CHOOSE s \in loc'[p].dto.status : TRUE]_vars

\* C28 witness: an event has just been created by a request that carried
\* status published, and it is published with registeredCount = 0.
C28_Witness ==
    \E p \in Procs :
        /\ pc[p] = "done" /\ loc[p].op = "createEvent" /\ loc[p].result = "ok"
        /\ loc[p].dto.status = {"published"}
        /\ events[loc[p].eventId].status = "published"
        /\ events[loc[p].eventId].registeredCount = 0

\* C29: an update whose new capacity is below the event's registeredCount
\* is rejected with BadRequestException and leaves the event as it is, and
\* the event an accepted update saves, whatever fields the request carries,
\* has registeredCount <= capacity.
C29_UpdateKeepsCountWithinCapacity ==
    [][\A p \in Procs :
          /\ ( /\ pc[p] = "idle" /\ pc'[p] # "idle" /\ loc'[p].op = "update"
               /\ events[loc'[p].eventId].exists
               /\ UpdatePermission(events[loc'[p].eventId], loc'[p].user,
                                   loc'[p].isAdmin) = "ok"
               /\ \E c \in loc'[p].dto.capacity :
                     c < events[loc'[p].eventId].registeredCount )
             => /\ pc'[p] = "done"
                /\ loc'[p].result = "BadRequestException"
                /\ UNCHANGED events
          /\ (pc[p] = "u_save" /\ pc'[p] = "done")
             => events'[loc[p].eventId].registeredCount
                   <= events'[loc[p].eventId].capacity]_vars

\* C30: Create reports its failures in a fixed order: a missing event gives
\* NotFoundException; else an event that is not published or has started
\* gives BadRequestException; else too little capacity left gives
\* ConflictException; else an active reservation of the same user for the
\* event gives ConflictException; else the reservation is saved.
C30_CreateFailurePrecedence ==
    [][\A p \in Procs :
          /\ (pc[p] = "idle" /\ pc'[p] # "idle" /\ loc'[p].op = "create")
             => LET ev == events[loc'[p].eventId] IN
                IF ~ev.exists
                THEN pc'[p] = "done" /\ loc'[p].result = "NotFoundException"
                ELSE IF ev.status # "published" \/ ev.startDate <= now
                THEN pc'[p] = "done" /\ loc'[p].result = "BadRequestException"
                ELSE IF ev.capacity - ev.registeredCount < loc'[p].n
                THEN pc'[p] = "done" /\ loc'[p].result = "ConflictException"
                ELSE pc'[p] = "c_checkExisting"
          /\ (pc[p] = "c_checkExisting" /\ pc'[p] # "c_checkExisting")
             => IF \E r \in DOMAIN reservations :
                      /\ reservations[r].userId = loc[p].user
                      /\ reservations[r].eventId = loc[p].eventId
                      /\ reservations[r].status \in {"pending", "confirmed"}
                THEN pc'[p] = "done" /\ loc'[p].result = "ConflictException"
                ELSE pc'[p] = "c_save"]_vars

\* C30 witness: a Create by a user who holds a confirmed reservation, for an
\* event that is canceled and full, has failed with BadRequestException.
C30_Witness ==
    \E p \in Procs, r \in DOMAIN reservations :
        /\ pc[p] = "done" /\ loc[p].op = "create"
        /\ reservations[r].userId = loc[p].user
        /\ reservations[r].eventId = loc[p].eventId
        /\ reservations[r].status = "confirmed"
        /\ events[loc[p].eventId].status = "canceled"
        /\ events[loc[p].eventId].registeredCount = events[loc[p].eventId].capacity
        /\ loc[p].result = "BadRequestException"

\* The actor of request l may act on event ev: its organizer or an admin.
OrganizerOrAdmin(l, ev) == l.isAdmin \/ l.user = ev.organizerId

\* A step of a publish request: a foreign non-admin gets ForbiddenException,
\* a status other than draft or a startDate not after the time of the
\* request gets BadRequestException, the event is untouched in both cases,
\* and any other publish saves the event as published and changes nothing
\* else.
PublishGuardedStep ==
    \A p \in Procs :
        /\ ( /\ pc[p] = "idle" /\ pc'[p] # "idle" /\ loc'[p].op = "publish"
             /\ events[loc'[p].eventId].exists )
           => LET ev == events[loc'[p].eventId] IN
              /\ UNCHANGED events
              /\ IF ~OrganizerOrAdmin(loc'[p], ev)
                 THEN pc'[p] = "done" /\ loc'[p].result = "ForbiddenException"
                 ELSE IF ev.status # "draft" \/ ev.startDate <= now
                 THEN pc'[p] = "done" /\ loc'[p].result = "BadRequestException"
                 ELSE pc'[p] = "p_save"
        /\ (pc[p] = "p_save" /\ pc'[p] # "p_save")
           => /\ loc'[p].result = "ok"
              /\ events' = [events EXCEPT ![loc[p].eventId].status = "published"]

\* A step that makes an existing event published is the end of a request
\* made before the event's startDate.
NoPublishedPastEventStep ==
    \A e \in EventIds :
        ( /\ events[e].exists /\ events'[e].exists
          /\ events[e].status # "published" /\ events'[e].status = "published" )
        => \E p \in Procs :
              /\ pc[p] # pc'[p] /\ pc'[p] = "done"
              /\ events'[e].startDate > loc'[p].t

\* C31: publish succeeds only on a draft event whose startDate is after the
\* time of the request and only for the organizer or an admin, and fails
\* otherwise without touching the event; and no event becomes published
\* with a startDate that is not after the time of the request that
\* publishes it.
C31_PublishOnlyFutureDraft ==
    [][PublishGuardedStep /\ NoPublishedPastEventStep]_vars

ClosedCountStep ==
    \A e \in EventIds :
        (events[e].exists /\ events'[e].exists /\ events[e].status # "published")
        => events'[e].registeredCount <= events[e].registeredCount

\* No reservation becomes confirmed while its event is not published.
ClosedConfirmStep ==
    \A r \in DOMAIN reservations :
        ( /\ reservations[r].status # "confirmed"
          /\ reservations'[r].status = "confirmed" )
        => events[reservations[r].eventId].status = "published"

\* C33: once an event is draft or canceled its registeredCount never
\* increases, and no reservation becomes confirmed for it while it is in
\* that status.
C33_ClosedEventTakesNoRegistration ==
    [][ClosedCountStep /\ ClosedConfirmStep]_vars

\* C34: concurrent Cancels of one confirmed reservation release its tickets
\* once: with Creates served alone and only Cancels of the same reservation
\* overlapping, whenever no request is in flight registeredCount equals the
\* tickets of the reservations that are still confirmed.
C34_CancelReleasesOnce ==
    Quiescent
    => \A e \in EventIds : events[e].registeredCount = SumTickets(Held(e))

\* The reservations of event e in status confirmed.
ConfirmedFor(e) ==
    {r \in DOMAIN reservations :
        reservations[r].eventId = e /\ reservations[r].status = "confirmed"}

\* C35: concurrent Confirms of one pending reservation, the admin's or the
\* one Create runs, raise registeredCount by numberOfTickets in total:
\* whenever no request is in flight registeredCount equals the tickets of
\* the confirmed reservations.
C35_ConfirmCountsOnce ==
    (\A p \in Procs : ~InFlight(p))
    => \A e \in EventIds :
          events[e].registeredCount = SumTickets(ConfirmedFor(e))

\* The reservations of event e in one of the given statuses.
InStatus(e, statuses) ==
    {r \in DOMAIN reservations :
        reservations[r].eventId = e /\ reservations[r].status \in statuses}

\* C36: a Cancel running concurrently with a CheckIn or a markNoShow of the
\* same confirmed reservation ends as one of the serial orders would:
\* whenever no request is in flight, the tickets of every confirmed,
\* checked_in and no_show reservation are counted in registeredCount and
\* those of every canceled reservation are not.
C36_CancelVersusCheckIn ==
    Quiescent
    => \A e \in EventIds :
          events[e].registeredCount =
             SumTickets(InStatus(e, {"confirmed", "checked_in", "no_show"}))

\* What each status says about the timestamps of a reservation.
TimestampsTrack(res) ==
    /\ res.status \in {"confirmed", "checked_in", "no_show"} => res.confirmedAt # {}
    /\ res.status = "checked_in" => res.checkedInAt # {}
    /\ res.status = "canceled" => res.canceledAt # {} /\ res.cancelReason # {}
    /\ res.status = "pending" =>
          res.confirmedAt = {} /\ res.checkedInAt = {} /\ res.canceledAt = {}

TimestampsKeptStep ==
    \A r \in DOMAIN reservations :
        /\ r \in DOMAIN reservations'
        /\ reservations[r].canceledAt # {} => reservations'[r].canceledAt # {}
        /\ reservations[r].confirmedAt # {} => reservations'[r].confirmedAt # {}
        /\ reservations[r].checkedInAt # {} => reservations'[r].checkedInAt # {}

\* C37: in every reachable state a confirmed, checked_in or no_show
\* reservation has confirmedAt, a checked_in one has checkedInAt, a canceled
\* one has canceledAt and a cancel reason, a pending one has none of the three
\* timestamps; and no step clears a timestamp that is set.
C37_TimestampsTrackLifecycle ==
    /\ [](\A r \in DOMAIN reservations : TimestampsTrack(reservations[r]))
    /\ [][TimestampsKeptStep]_vars

\* Reached: a reservation that was confirmed and then canceled carries both
\* timestamps and its cancel reason.
C37_Witness ==
    \E r \in DOMAIN reservations :
        /\ reservations[r].status = "canceled"
        /\ reservations[r].confirmedAt # {}
        /\ reservations[r].canceledAt # {}
        /\ reservations[r].cancelReason # {}

\* The step is one of an engine operation of request p on an existing or a
\* missing reservation.
EngineStep(p) == pc'[p] # pc[p] /\ loc'[p].op \in ReservationOps

\* Such a step leaves every other reservation and every other event as it is.
IsolatedStep ==
    \A p \in Procs :
        EngineStep(p) =>
            LET rid == loc'[p].rid IN
            /\ DOMAIN reservations' = DOMAIN reservations
            /\ \A r \in DOMAIN reservations :
                  r # rid => reservations'[r] = reservations[r]
            /\ \A e \in DOMAIN events :
                  (rid \notin DOMAIN reservations \/ e # reservations[rid].eventId)
                  => events'[e] = events[e]

\* The step ends request p with one of the operation's own guards failing:
\* the reservation or its event not found, the caller not allowed, the status
\* or the window wrong.  (A failing counter call inside a loop is not a guard
\* of the operation.)
GuardFailsStep(p) ==
    /\ EngineStep(p)
    /\ pc[p] \notin {"k_incFind", "x_decFind"}
    /\ pc'[p] = "done"
    /\ loc'[p].result \in
          {"NotFoundException", "ForbiddenException", "BadRequestException"}

\* Such a step changes nothing and the request has changed nothing before:
\* its reservation and the counter of its event are as they were when the
\* request came in (history kept while the request was alone).
FailsCleanStep ==
    \A p \in Procs :
        GuardFailsStep(p) =>
            /\ UNCHANGED <<events, reservations, noShows>>
            /\ (loc'[p].alone /\ loc'[p].res.status # "none")
               => /\ reservations'[loc'[p].rid] = loc'[p].res
                  /\ events'[loc'[p].res.eventId].registeredCount = loc'[p].cnt0

\* C38: confirm, cancel, checkIn, markNoShow and refund on reservation r
\* change no other reservation and no event other than r's; and one that
\* fails on a guard (NotFound, Forbidden, InvalidState on status or window)
\* changes nothing at all.
C38_IsolatedPerReservation == [][IsolatedStep /\ FailsCleanStep]_vars

\* Reached: a cancel has released the tickets of reservation 1 on event 1
\* while reservation 2 stays confirmed and counted on event 2, and a second
\* cancel of reservation 1 has just been refused.
C38_Witness ==
    /\ DOMAIN events = PairEvents
    /\ Len(reservations) = 2
    /\ reservations[1].status = "canceled"
    /\ events[1].registeredCount = 0
    /\ reservations[2].status = "confirmed"
    /\ events[2].registeredCount = reservations[2].numberOfTickets
    /\ \E p \in Procs :
          /\ pc[p] = "done"
          /\ loc[p].op = "cancel"
          /\ loc[p].rid = 1
          /\ loc[p].result = "BadRequestException"

\* The counter calls request p has made so far stay within the number of
\* tickets of its reservation, and a call is only under way while fewer than
\* that have been made.
LoopBounded(p) ==
    /\ loc[p].i <= loc[p].res.numberOfTickets
    /\ pc[p] \in {"k_incFind", "k_incSave", "x_decFind", "x_decSave"}
       => loc[p].i < loc[p].res.numberOfTickets

\* C39: under fair scheduling every started create, confirm, cancel, checkIn,
\* markNoShow or refund eventually returns a result or an error, and Confirm
\* and Cancel make at most numberOfTickets counter calls.
C39_EveryOperationTerminates ==
    /\ \A p \in Procs : InFlight(p) ~> pc[p] = "done"
    /\ [](\A p \in Procs : LoopBounded(p))

\* Reached: a Cancel has returned after two counter calls for a reservation
\* of two tickets.
C39_Witness ==
    \E p \in Procs :
        /\ pc[p] = "done"
        /\ loc[p].op = "cancel"
        /\ loc[p].result = "ok"
        /\ loc[p].res.numberOfTickets = 2
        /\ loc[p].i = 2

====
